---- MODULE Spec2Model ----
(***************************************************************************)
(* Model of src/main.py: the quad-tree image approximation (Quad, Model).  *)
(*                                                                         *)
(* Numbers.  The program runs under Python 3, so box coordinates are      *)
(* floats: Quad.split halves with true division.  Every coordinate the    *)
(* program can produce within MaxSplits splits is a multiple of           *)
(* 1/Scale, so a coordinate x is held as the integer x * Scale and an     *)
(* area a as a * Scale * Scale.  Standard deviations and errors are held  *)
(* in units of 1/Res, truncated; products and sums of them are exact.     *)
(***************************************************************************)
EXTENDS Integers, Sequences, FiniteSets, TLC

\* ---------------------------------------------------------------- bounds
MaxW == 3
MaxH == 3
MaxLit == 2
MaxSplits == 3
MaxDepthArg == 1
\* resolution of standard deviations, errors and powers: 1/Res
Res == 100
\* number of binary digits of AREA_POWER used by Pow
PowDigits == 12

\* ------------------------------------------------------ program constants
ITERATIONS_MAX == 50024
ITERATIONS == ITERATIONS_MAX
LEAF_SIZE == 4
OUTPUT_SCALE == 1
PADDING == 0
\* AREA_POWER = 0.95, held as the fraction AREA_POWER_NUM / AREA_POWER_DEN
AREA_POWER_NUM == 95
AREA_POWER_DEN == 100

\* ------------------------------------------------------------ fixed point
RECURSIVE Pow2(_)
Pow2(n) == IF n = 0 THEN 1 ELSE 2 * Pow2(n - 1)

\* one pixel is Scale units: deep enough for MaxSplits exact halvings
Scale == Pow2(MaxSplits)

Min(a, b) == IF a <= b THEN a ELSE b

RECURSIVE SqrtSearch(_, _, _)
\* largest s in lo..hi with s * s <= n (hi * hi fits in 31 bits)
SqrtSearch(n, lo, hi) ==
    IF lo >= hi THEN lo
    ELSE LET mid == (lo + hi + 1) \div 2
         IN IF mid * mid <= n THEN SqrtSearch(n, mid, hi)
            ELSE SqrtSearch(n, lo, mid - 1)

\* floor of the square root
ISqrt(n) ==
    SqrtSearch(n, 0, IF n < 100 THEN 10 ELSE IF n < 10000 THEN 100
                     ELSE IF n < 1000000 THEN 1000 ELSE Min(n \div 1000, 46340))

RECURSIVE SqrtDigit(_, _, _)
\* largest decimal digit d <= k with (20 s + d) d <= rem
SqrtDigit(s, rem, k) ==
    IF k = 0 \/ (20 * s + k) * k <= rem THEN k ELSE SqrtDigit(s, rem, k - 1)

\* a root s of n with the remainder n - s * s
SqrtStart(n, s) == <<s, n - s * s>>

\* the next decimal digit d of a root: the root 10 s + d and its remainder
SqrtAppend(s, rem, d) == <<10 * s + d, rem - (20 * s + d) * d>>

\* one step of the decimal digit-by-digit method on <<root, remainder>>
SqrtNext(sr) == SqrtAppend(sr[1], 100 * sr[2], SqrtDigit(sr[1], 100 * sr[2], 9))

\* floor(100 * sqrt(n)), by two steps of the digit-by-digit method
Sqrt100(n) == SqrtNext(SqrtNext(SqrtStart(n, ISqrt(n))))[1]

\* Python 3 round(): num / den to the nearest integer, ties to even
Round(num, den) ==
    IF 2 * (num % den) < den THEN num \div den
    ELSE IF 2 * (num % den) > den THEN num \div den + 1
    ELSE IF (num \div den) % 2 = 0 THEN num \div den ELSE num \div den + 1

RECURSIVE PowLoop(_, _, _, _)
\* x ** (num / AREA_POWER_DEN), num < AREA_POWER_DEN, from k binary digits of
\* the exponent: the product of the repeated square roots of x whose digit is 1
PowLoop(x, num, acc, k) ==
    IF k = 0 THEN acc
    ELSE IF 2 * num >= AREA_POWER_DEN
    THEN PowLoop(ISqrt(x * Res), 2 * num - AREA_POWER_DEN,
                 (acc * ISqrt(x * Res)) \div Res, k - 1)
    ELSE PowLoop(ISqrt(x * Res), 2 * num, acc, k - 1)

\* area ** AREA_POWER for an area of a Scale-squared units, in tenths
\* (of Scale ** (2 * AREA_POWER), the same positive factor for every quad)
Pow(a) == PowLoop(a * Res, AREA_POWER_NUM, Res, PowDigits) \div (Res \div 10)

\* ------------------------------------------------------------ the image
VARIABLES
    im,          \* Model.im: the RGB raster, pixel <<x, y>> -> <<r, g, b>>
    width,       \* Model.width
    height,      \* Model.height
    quads,       \* the Quad objects, by identity (the path from the root)
    heap,        \* Model.heap: the heapq list of <<leaf, score, quad>>
    error_sum,   \* Model.error_sum
    i,           \* number of Model.split calls made (main's loop index)
    op,          \* the last call and its argument
    nodes,       \* the list returned by the last get_leaf_nodes call
    painted      \* the shapes drawn by the last render call, in order

vars == <<im, width, height, quads, heap, error_sum, i, op, nodes, painted>>

Black == <<0, 0, 0>>
White == <<255, 255, 255>>
Red == <<255, 0, 0>>
Channels == 1..3
\* the channel values that occur in the images of the model; every other
\* bucket of a histogram is zero
ChannelValues == {0, 255}

Pixels(w, h) == (0..(w - 1)) \X (0..(h - 1))

\* the image of width w and height h that is bg except for fg at the crossings
\* of the columns xs and the rows ys
Image(w, h, bg, fg, xs, ys) ==
    [p \in Pixels(w, h) |-> IF p[1] \in xs /\ p[2] \in ys THEN fg ELSE bg]

\* the sets of at most n elements of S
RECURSIVE UpTo(_, _)
UpTo(S, n) ==
    IF n = 0 THEN {{}}
    ELSE LET smaller == UpTo(S, n - 1)
         IN smaller \cup {s \cup {x} : s \in smaller, x \in S}

\* the smallest side whose grandchildren are the first leaf-flagged quads
BigSide == 2 * LEAF_SIZE + 1
\* the smallest side whose children are the first leaf-flagged quads
MidSide == LEAF_SIZE + 1
\* the first and the last column (row) of a side of n pixels
Border(n) == {0, n - 1}

\* ------------------------------------------- RegionStats (lines 22-41)
\* div that returns 1 on ZeroDivisionError
div_FallbackOne(x, y) == IF y = 0 THEN [num |-> 1, den |-> 1] ELSE [num |-> x, den |-> y]

\* div(x, y): the quotient as a fraction, 0 on ZeroDivisionError
div(x, y) == IF y = 0 THEN [num |-> 0, den |-> 1] ELSE [num |-> x, den |-> y]

\* Image.crop(box): the box rounded to whole pixels (round half to even)
CropBox(box) ==
    <<Round(box[1], Scale), Round(box[2], Scale), Round(box[3], Scale),
      Round(box[4], Scale)>>

RECURSIVE Buckets(_, _, _, _)
\* the buckets vs of the histogram of channel ch over the pixels of region
Buckets(image, region, ch, vs) ==
    IF vs = {} THEN <<>>
    ELSE LET v == CHOOSE x \in vs : TRUE
         IN (v :> Cardinality({p \in region : image[p][ch] = v}))
                @@ Buckets(image, region, ch, vs \ {v})

\* the pixels of the image inside the crop c
Region(image, c) ==
    {p \in DOMAIN image : /\ c[1] <= p[1] /\ p[1] < c[3]
                          /\ c[2] <= p[2] /\ p[2] < c[4]}

\* the histogram of the pixels of region
HistogramOver(image, region) ==
    <<Buckets(image, region, 1, ChannelValues),
      Buckets(image, region, 2, ChannelValues),
      Buckets(image, region, 3, ChannelValues)>>

\* Image.crop(box).histogram(): per channel, the number of pixels of each value
Histogram(image, box) == HistogramOver(image, Region(image, CropBox(box)))

RECURSIVE SumOver(_, _)
\* the sum of f[v] over v in S
SumOver(f, S) ==
    IF S = {} THEN 0
    ELSE LET v == CHOOSE x \in S : TRUE
         IN f[v] + SumOver(f, S \ {v})

\* total, sum of i x and sum of i i x over the buckets i with count x
Moments(hist) ==
    <<SumOver(hist, DOMAIN hist),
      SumOver([v \in DOMAIN hist |-> v * hist[v]], DOMAIN hist),
      SumOver([v \in DOMAIN hist |-> v * v * hist[v]], DOMAIN hist)>>

\* the square root of a fraction whose denominator is a square, in units of 1/Res
StdDev(square) == (Sqrt100(square.num) * Res) \div (100 * ISqrt(square.den))

\* WeightedFrom with the squared error taken about zero, not about the mean
WeightedFrom_Uncentred(m) ==
    [value |-> div(m[2], m[1]),
     error |-> StdDev(div(m[1] * m[3], m[1] * m[1]))]

\* value = div(sum i x, total); the squared error div(sum x (value - i)^2,
\* total) is, with value = s1 / total, the fraction (total s2 - s1^2) / total^2
WeightedFrom(m) ==
    [value |-> div(m[2], m[1]),
     error |-> StdDev(div(m[1] * m[3] - m[2] * m[2], m[1] * m[1]))]

\* weighted_average(hist) for one channel: the mean and the standard deviation
weighted_average(hist) == WeightedFrom(Moments(hist))

\* the rounded channel means and the luma-weighted sum of the channel errors
Combine(r, g, b) ==
    [color |-> <<Round(r.value.num, r.value.den), Round(g.value.num, g.value.den),
                 Round(b.value.num, b.value.den)>>,
     error |-> (2989 * r.error + 5870 * g.error + 1140 * b.error) \div 10000]

\* color_from_histogram(hist)
color_from_histogram(hist) ==
    Combine(weighted_average(hist[1]), weighted_average(hist[2]),
            weighted_average(hist[3]))

\* ------------------------------------------------------ Quad (lines 54-97)
\* Quad.is_leaf
is_leaf(box) ==
    IF box[3] - box[1] <= LEAF_SIZE * Scale \/ box[4] - box[2] <= LEAF_SIZE * Scale
    THEN 1 ELSE 0

\* Quad.compute_area, in units of 1 / (Scale * Scale)
compute_area(box) == (box[3] - box[1]) * (box[4] - box[2])

\* the fields Quad.__init__ sets, given the stats of the box
QuadOf(box, depth, stats) ==
    [box |-> box, depth |-> depth, color |-> stats.color, error |-> stats.error,
     leaf |-> is_leaf(box), area |-> compute_area(box), children |-> <<>>]

\* Quad.__init__
Quad(image, box, depth) == QuadOf(box, depth, color_from_histogram(Histogram(image, box)))

\* BoxesAt with the bottom-left child starting at the parent's top
BoxesAt_TallBottomLeft(l, t, r, b, lr, tb) ==
    << <<l, t, lr, tb>>, <<lr, t, r, tb>>, <<l, t, lr, b>>, <<lr, tb, r, b>> >>

\* the four boxes around the midpoint (lr, tb), in the order tl, tr, bl, br
BoxesAt(l, t, r, b, lr, tb) ==
    << <<l, t, lr, tb>>, <<lr, t, r, tb>>, <<l, tb, lr, b>>, <<lr, tb, r, b>> >>

\* SplitBoxes with the half sides taken as the midpoint, l and t not added
SplitBoxes_FromOrigin(box) ==
    BoxesAt(box[1], box[2], box[3], box[4],
            (box[3] - box[1]) \div 2, (box[4] - box[2]) \div 2)

\* the boxes of the four children made by Quad.split, in the order tl, tr, bl, br
SplitBoxes(box) ==
    BoxesAt(box[1], box[2], box[3], box[4],
            box[1] + (box[3] - box[1]) \div 2, box[2] + (box[4] - box[2]) \div 2)

\* the identities of the children of quad q
ChildIds(q) == <<Append(q, 1), Append(q, 2), Append(q, 3), Append(q, 4)>>

\* the four Quads constructed by Quad.split
NewQuads(image, boxes, depth) ==
    <<Quad(image, boxes[1], depth), Quad(image, boxes[2], depth),
      Quad(image, boxes[3], depth), Quad(image, boxes[4], depth)>>

\* the quads with the new ones added as the children kids of q
Attach(qs, q, kids, new) ==
    (kids[1] :> new[1]) @@ (kids[2] :> new[2]) @@ (kids[3] :> new[3])
        @@ (kids[4] :> new[4]) @@ [qs EXCEPT ![q].children = kids]

\* QuadSplit that gives the children the depth of their parent
QuadSplit_SameDepth(image, qs, q) ==
    Attach(qs, q, ChildIds(q), NewQuads(image, SplitBoxes(qs[q].box), qs[q].depth))

\* Quad.split on quad q: the quads afterwards (four new ones, q has children)
QuadSplit(image, qs, q) ==
    Attach(qs, q, ChildIds(q), NewQuads(image, SplitBoxes(qs[q].box), qs[q].depth + 1))

RECURSIVE Concat(_)
\* the concatenation of a sequence of sequences
Concat(ss) == IF ss = <<>> THEN <<>> ELSE Head(ss) \o Concat(Tail(ss))

RECURSIVE get_leaf_nodes_Deeper(_, _, _)
\* get_leaf_nodes that stops only below max_depth (> for >=)
get_leaf_nodes_Deeper(qs, q, max_depth) ==
    IF qs[q].children = <<>> THEN <<q>>
    ELSE IF max_depth # <<>> /\ qs[q].depth > max_depth[1] THEN <<q>>
    ELSE Concat([k \in 1..Len(qs[q].children) |->
                    get_leaf_nodes_Deeper(qs, qs[q].children[k], max_depth)])

RECURSIVE get_leaf_nodes_Reversed(_, _, _)
\* get_leaf_nodes that visits the children last to first
get_leaf_nodes_Reversed(qs, q, max_depth) ==
    IF qs[q].children = <<>> THEN <<q>>
    ELSE IF max_depth # <<>> /\ qs[q].depth >= max_depth[1] THEN <<q>>
    ELSE Concat([k \in 1..Len(qs[q].children) |->
                    get_leaf_nodes_Reversed(
                        qs, qs[q].children[Len(qs[q].children) + 1 - k], max_depth)])

RECURSIVE get_leaf_nodes(_, _, _)
\* Quad.get_leaf_nodes(max_depth) on quad q; max_depth is <<>> for None, <<d>>
\* for a supplied depth d
get_leaf_nodes(qs, q, max_depth) ==
    IF qs[q].children = <<>> THEN <<q>>
    ELSE IF max_depth # <<>> /\ qs[q].depth >= max_depth[1] THEN <<q>>
    ELSE Concat([k \in 1..Len(qs[q].children) |->
                    get_leaf_nodes(qs, qs[q].children[k], max_depth)])

\* ----------------------------------------------------- heapq (lines 112-116)
\* Quad.__lt__
QuadLT(qs, a, b) == qs[a].error < qs[b].error

\* TupleLT for entries pushed without the leaf flag in front: (score, quad)
TupleLT_NoLeafKey(qs, a, b) ==
    IF a[2] # b[2] THEN a[2] < b[2]
    ELSE IF a[3] # b[3] THEN QuadLT(qs, a[3], b[3])
    ELSE FALSE

\* the order of the heap entries (leaf, score, quad): Python compares tuples
\* at the first position where they differ; two Quads differ unless identical
TupleLT(qs, a, b) ==
    IF a[1] # b[1] THEN a[1] < b[1]
    ELSE IF a[2] # b[2] THEN a[2] < b[2]
    ELSE IF a[3] # b[3] THEN QuadLT(qs, a[3], b[3])
    ELSE FALSE

\* h with the entry at position pos (from 0) replaced by x
Put(h, pos, x) == [h EXCEPT ![pos + 1] = x]

RECURSIVE siftdown(_, _, _, _, _)
\* heapq._siftdown: move newitem up from pos towards startpos
siftdown(qs, h, startpos, pos, newitem) ==
    IF pos > startpos /\ TupleLT(qs, newitem, h[(pos - 1) \div 2 + 1])
    THEN siftdown(qs, Put(h, pos, h[(pos - 1) \div 2 + 1]), startpos,
                  (pos - 1) \div 2, newitem)
    ELSE Put(h, pos, newitem)

\* the position of the smaller child in _siftup: the right one when it exists
\* and the left one is not smaller than it
SmallerChild(qs, h, leftpos) ==
    IF leftpos + 1 < Len(h) /\ ~TupleLT(qs, h[leftpos + 1], h[leftpos + 2])
    THEN leftpos + 1 ELSE leftpos

RECURSIVE siftup(_, _, _, _, _)
\* heapq._siftup: bubble the smaller child up until a leaf, then sift newitem down
siftup(qs, h, startpos, pos, newitem) ==
    IF 2 * pos + 1 < Len(h)
    THEN siftup(qs, Put(h, pos, h[SmallerChild(qs, h, 2 * pos + 1) + 1]), startpos,
                SmallerChild(qs, h, 2 * pos + 1), newitem)
    ELSE siftdown(qs, Put(h, pos, newitem), startpos, pos, newitem)

\* heapq.heappush
heappush(qs, h, item) == siftdown(qs, Append(h, item), 0, Len(h), item)

\* heapq.heappop, for a non-empty heap: the entry returned and the heap left
heappop(qs, h) ==
    IF Len(h) > 1
    THEN [item |-> h[1],
          heap |-> siftup(qs, SubSeq(h, 1, Len(h) - 1), 0, 0, h[Len(h)])]
    ELSE [item |-> h[Len(h)], heap |-> <<>>]

\* ---------------------------------------------------- Model (lines 99-146)
\* Score without the minus sign
Score_Positive(quad) == IF quad.error = 0 THEN 0 ELSE quad.error * Pow(quad.area)

\* the score Model.push gives a quad: -error * area ** AREA_POWER (zero when
\* the error is zero, whatever the power)
Score(quad) == IF quad.error = 0 THEN 0 ELSE 0 - quad.error * Pow(quad.area)

\* push with the leaf flag inverted in the heap entry
push_LeafFirst(qs, h, q) == heappush(qs, h, <<1 - qs[q].leaf, Score(qs[q]), q>>)

\* Model.push
push(qs, h, q) == heappush(qs, h, <<qs[q].leaf, Score(qs[q]), q>>)

\* pop that reads the top of the heap without removing it
pop_Peek(qs, h) == [quad |-> h[1][3], heap |-> h]

\* the quad of a popped heap entry
Popped(r) == [quad |-> r.item[3], heap |-> r.heap]

\* Model.pop: the quad popped and the heap left
pop(qs, h) == Popped(heappop(qs, h))

\* Model.average_error, in units of 1/Res
average_error(sum, w, h) == sum \div (w * h * Scale * Scale)

\* Model.quads
ModelQuads(h) == [k \in 1..Len(h) |-> h[k][3]]

Root == <<>>
None == <<>>
DepthArgs == {None} \cup {<<d>> : d \in (0 - 1)..MaxDepthArg}

\* one turn of the loop of Model.split: the child is pushed and its
\* error * area added to error_sum
PushChild(qs, state, child) ==
    [heap |-> push(qs, state.heap, child),
     error_sum |-> state.error_sum + qs[child].error * qs[child].area]

RECURSIVE PushAll(_, _, _, _)
\* the loop of Model.split over children[k..]
PushAll(qs, state, children, k) ==
    IF k > Len(children) THEN state
    ELSE PushAll(qs, PushChild(qs, state, children[k]), children, k + 1)

\* what Model.split leaves: the quads, the heap and error_sum after the loop,
\* and the quad that was popped
SplitResult(qs, quad, after) ==
    [quads |-> qs, heap |-> after.heap, error_sum |-> after.error_sum, quad |-> quad]

\* SplitChildren that pushes the quad just split back before its children
SplitChildren_KeepParent(qs, quad, h, sum) ==
    SplitResult(qs, quad,
                PushAll(qs, [heap |-> push(qs, h, quad), error_sum |-> sum],
                        qs[quad].children, 1))

\* Model.split from the quads after quad.split(): the loop over the children
SplitChildren(qs, quad, h, sum) ==
    SplitResult(qs, quad,
                PushAll(qs, [heap |-> h, error_sum |-> sum], qs[quad].children, 1))

\* Model.split after the pop, without the subtraction of error * area
SplitPopped_NoSubtract(image, qs, popped, sum) ==
    SplitChildren(QuadSplit(image, qs, popped.quad), popped.quad, popped.heap, sum)

\* Model.split after the pop: error_sum -= quad.error * quad.area, quad.split()
SplitPopped(image, qs, popped, sum) ==
    SplitChildren(QuadSplit(image, qs, popped.quad), popped.quad, popped.heap,
                  sum - qs[popped.quad].error * qs[popped.quad].area)

\* a box at most one pixel wide or at most one pixel high
AtFloor(box) == box[3] - box[1] <= Scale \/ box[4] - box[2] <= Scale

\* Model.split with a guard: a popped quad at the floor is left unsplit
ModelSplit_Guarded(image, qs, h, sum) ==
    IF AtFloor(qs[pop(qs, h).quad].box)
    THEN [quads |-> qs, heap |-> h, error_sum |-> sum, quad |-> pop(qs, h).quad]
    ELSE SplitPopped(image, qs, pop(qs, h), sum)

\* Model.split: the heap, the quads and error_sum afterwards, and the quad popped
ModelSplit(image, qs, h, sum) == SplitPopped(image, qs, pop(qs, h), sum)

\* the box drawn for a leaf: (l * m + dx, t * m + dy, r * m - 1, b * m - 1)
ShapeBox(box, m, d) == <<box[1] * m + d, box[2] * m + d, box[3] * m - Scale, box[4] * m - Scale>>

\* Shape that takes the substitute color from the leaf after the black one
Shape_NextLeaf(qs, ns, k) ==
    [quad |-> ns[k],
     box |-> ShapeBox(qs[ns[k]].box, OUTPUT_SCALE, PADDING * Scale),
     color |-> IF \A ch \in Channels : qs[ns[k]].color[ch] = 0
               THEN qs[ns[IF k = Len(ns) THEN 1 ELSE k + 1]].color
               ELSE qs[ns[k]].color]

\* one shape drawn by Model.render for leaf number k (from 1) of ns: the
\* leaf's box scaled and padded, and its color, or when that is all zero the
\* color of nodes[i - 1], which for i = 0 is Python's nodes[-1], the last one
Shape(qs, ns, k) ==
    [quad |-> ns[k],
     box |-> ShapeBox(qs[ns[k]].box, OUTPUT_SCALE, PADDING * Scale),
     color |-> IF \A ch \in Channels : qs[ns[k]].color[ch] = 0
               THEN qs[ns[IF k = 1 THEN Len(ns) ELSE k - 1]].color
               ELSE qs[ns[k]].color]

\* the shapes drawn for the leaves ns, in order
Shapes(qs, ns) == [k \in 1..Len(ns) |-> Shape(qs, ns, k)]

\* Model.render(path, max_depth): the shapes drawn, in order
ModelRender(qs, max_depth) == Shapes(qs, get_leaf_nodes(qs, Root, max_depth))

\* ------------------------------------------------------------ the machine
\* the state Model.__init__ leaves for an image
Constructed(image, w, h, root) ==
    /\ im = image
    /\ width = w
    /\ height = h
    /\ quads = (Root :> root)
    /\ error_sum = root.error * root.area
    /\ heap = push((Root :> root), <<>>, Root)
    /\ i = 0
    /\ op = [name |-> "init", quad |-> Root, max_depth |-> None]
    /\ nodes = <<>>
    /\ painted = <<>>

\* Model.__init__ on an image of width w and height h
Construct(image, w, h) ==
    Constructed(image, w, h, Quad(image, <<0, 0, w * Scale, h * Scale>>, 0))

Foregrounds == {White, Red}

\* small images: lit columns and rows, at most MaxLit of each
InitSmall ==
    \E w \in 1..MaxW, h \in 1..MaxH, fg \in Foregrounds :
        \E xs \in UpTo(0..(w - 1), MaxLit), ys \in UpTo(0..(h - 1), MaxLit) :
            Construct(Image(w, h, Black, fg, xs, ys), w, h)

\* an image large enough for quads that are not leaf-flagged at depth 1: lit
\* pixels in the corners
InitBig ==
    \E fg \in Foregrounds :
        \E xs \in SUBSET Border(BigSide), ys \in SUBSET Border(BigSide) :
            Construct(Image(BigSide, BigSide, Black, fg, xs, ys), BigSide, BigSide)

\* an image whose root is not leaf-flagged and whose depth 1 quads are: lit
\* pixels in the corners
InitMid ==
    \E fg \in Foregrounds :
        \E xs \in SUBSET Border(MidSide), ys \in SUBSET Border(MidSide) :
            Construct(Image(MidSide, MidSide, Black, fg, xs, ys), MidSide, MidSide)

Init == InitSmall \/ InitMid \/ InitBig

\* the state after Model.split with result r
SplitDone(r) ==
    /\ quads' = r.quads
    /\ heap' = r.heap
    /\ error_sum' = r.error_sum
    /\ op' = [name |-> "split", quad |-> r.quad, max_depth |-> None]

\* a call of Model.split: the one main makes at every index i of its loop
\* over range(ITERATIONS), whatever the frontier holds
Split ==
    /\ i < ITERATIONS
    /\ i < MaxSplits
    /\ SplitDone(ModelSplit(im, quads, heap, error_sum))
    /\ i' = i + 1
    /\ nodes' = <<>>
    /\ painted' = <<>>
    /\ UNCHANGED <<im, width, height>>

\* a leaf enumeration that empties the heap to list the frontier
GetLeafNodes_Draining ==
    \E max_depth \in DepthArgs :
        /\ nodes' = get_leaf_nodes(quads, Root, max_depth)
        /\ op' = [name |-> "get_leaf_nodes", quad |-> Root, max_depth |-> max_depth]
        /\ painted' = <<>>
        /\ heap' = <<>>
        /\ UNCHANGED <<im, width, height, quads, error_sum, i>>

\* a call of root.get_leaf_nodes(max_depth)
GetLeafNodes ==
    \E max_depth \in DepthArgs :
        /\ nodes' = get_leaf_nodes(quads, Root, max_depth)
        /\ op' = [name |-> "get_leaf_nodes", quad |-> Root, max_depth |-> max_depth]
        /\ painted' = <<>>
        /\ UNCHANGED <<im, width, height, quads, heap, error_sum, i>>

\* a call of Model.render(path, max_depth)
Render ==
    \E max_depth \in DepthArgs :
        /\ nodes' = get_leaf_nodes(quads, Root, max_depth)
        /\ painted' = ModelRender(quads, max_depth)
        /\ op' = [name |-> "render", quad |-> Root, max_depth |-> max_depth]
        /\ UNCHANGED <<im, width, height, quads, heap, error_sum, i>>

Next == Split \/ GetLeafNodes \/ Render

Spec == Init /\ [][Next]_vars

\* ------------------------------------------------------------- properties
\* the frontier: the quads in the heap
Frontier == {heap[k][3] : k \in 1..Len(heap)}

RECURSIVE HeapSum(_, _)
\* the sum of f(quad) over the entries k.. of the heap
HeapSum(f(_), k) ==
    IF k > Len(heap) THEN 0 ELSE f(quads[heap[k][3]]) + HeapSum(f, k + 1)

Weighted(quad) == quad.error * quad.area
Area(quad) == quad.area

\* C1: error_sum is the sum of error * area over the quads in the heap, in
\* every state reached by Model.split calls from construction
C1_ErrorSumIsFrontierSum == error_sum = HeapSum(Weighted, 1)

\* two splits made, of quads with an error, and an error left in the frontier
C1_Witness ==
    /\ i >= 2
    /\ error_sum > 0
    /\ error_sum # Weighted(quads[Root])
    /\ \E q \in DOMAIN quads : q # Root /\ quads[q].children # <<>> /\ quads[q].error > 0

\* C2: after k calls of Model.split the heap holds 1 + 3k quads
C2_HeapSize == Len(heap) = 1 + 3 * i

C2_Witness == i = 2 /\ Len(heap) = 7 /\ Cardinality(Frontier) = 7

\* C3: the areas of the quads in the heap sum to width * height, also for
\* regions of odd width or height
C3_AreaSum == HeapSum(Area, 1) = width * height * Scale * Scale

\* a quad of odd width and odd height has been split, and so has a child of it
C3_Witness ==
    /\ width % 2 = 1 /\ height % 2 = 1 /\ width > 1 /\ height > 1
    /\ \E q \in DOMAIN quads : q # Root /\ quads[q].children # <<>>

\* Model.average_error() of the current state, in units of 1/Res
AvgErr == average_error(error_sum, width, height)

\* a step that is a call of Model.split
IsSplit == i' = i + 1

\* C4: average_error() after a split is at most average_error() before it.
\* Errors are held truncated to 1/Res, which moves an average by less than
\* 4/Res, so a rise is counted only when it exceeds that.
C4_AverageErrorNeverIncreases == [][IsSplit => AvgErr' <= AvgErr + 4]_vars

\* the children of quad q that are in the frontier
IsChildOf(q, parent) == q # <<>> /\ SubSeq(q, 1, Len(q) - 1) = parent

\* C5: Model.split never pops a leaf-flagged quad while a quad with leaf = 0
\* is in the frontier, whatever the errors and areas
C5_LeafFlaggedLast ==
    [][IsSplit /\ quads[op'.quad].leaf = 1 => \A q \in Frontier : quads[q].leaf = 1]_vars

\* error * area ** AREA_POWER of a quad
Priority(quad) == IF quad.error = 0 THEN 0 ELSE quad.error * Pow(quad.area)

\* the last split popped a quad with leaf = 0 although a leaf-flagged quad with
\* a larger error * area ** AREA_POWER was in the frontier
C5_Witness ==
    /\ op.name = "split"
    /\ quads[op.quad].leaf = 0
    /\ \E q \in Frontier :
          /\ ~IsChildOf(q, op.quad)
          /\ quads[q].leaf = 1
          /\ Priority(quads[q]) > Priority(quads[op.quad])

\* C6: among the frontier quads with its own leaf flag, the quad popped by
\* Model.split has the largest error * area ** AREA_POWER (the minimal score)
C6_PoppedHasMinimalScore ==
    [][IsSplit => \A q \in Frontier :
                     quads[q].leaf = quads[op'.quad].leaf
                         => Priority(quads[q]) <= Priority(quads[op'.quad])]_vars

\* the last split left in the frontier a quad of the popped quad's leaf class
\* that has an error, and a smaller error * area ** AREA_POWER
C6_Witness ==
    /\ op.name = "split"
    /\ \E q \in Frontier :
          /\ ~IsChildOf(q, op.quad)
          /\ quads[q].leaf = quads[op.quad].leaf
          /\ quads[q].error > 0
          /\ Priority(quads[q]) < Priority(quads[op.quad])

\* the state holds the result of a leaf enumeration (render makes one first)
Enumerated == op.name \in {"get_leaf_nodes", "render"}

\* the proper ancestors of quad q
Ancestors(q) == {SubSeq(q, 1, n) : n \in 0..(Len(q) - 1)}

\* C7: get_leaf_nodes(d) returns only quads that are childless or are the
\* first on their branch whose depth has reached d (depth exactly d for a
\* depth d >= 0), never a quad below a quad of depth >= d, and
\* get_leaf_nodes(0) returns [root] whether or not the root has been split
C7_DepthCappedLeaves ==
    Enumerated /\ op.max_depth # None =>
        LET d == op.max_depth[1]
        IN /\ \A k \in 1..Len(nodes) :
                 /\ \/ quads[nodes[k]].children = <<>>
                    \/ /\ quads[nodes[k]].depth >= d
                       /\ d >= 0 => quads[nodes[k]].depth = d
                 /\ \A a \in Ancestors(nodes[k]) : quads[a].depth < d
           /\ d = 0 => nodes = <<Root>>

\* get_leaf_nodes(1) returned a quad of depth 1 that has children, next to
\* childless ones
C7_Witness ==
    /\ op.name = "get_leaf_nodes"
    /\ op.max_depth = <<1>>
    /\ Len(nodes) = 4
    /\ \E k \in 1..Len(nodes) : quads[nodes[k]].children # <<>>
    /\ \E k \in 1..Len(nodes) : quads[nodes[k]].children = <<>>

\* a step that is a call of get_leaf_nodes
IsGetLeafNodes == op'.name = "get_leaf_nodes" /\ i' = i

\* C8: a get_leaf_nodes call changes neither the tree, the heap nor
\* error_sum; an enumeration with the max_depth of the one before it, with no
\* split between them, returns the same sequence; and an enumeration after a
\* split holds the children of the quad split and not that quad
C8_GetLeafNodesPure ==
    [][/\ IsGetLeafNodes => UNCHANGED <<im, width, height, quads, heap, error_sum>>
       /\ (i' = i /\ Enumerated /\ Enumerated' /\ op'.max_depth = op.max_depth)
              => nodes' = nodes
       /\ (IsGetLeafNodes /\ op.name = "split" /\ op'.max_depth = None)
              => /\ \A k \in 1..4 : \E n \in 1..Len(nodes') :
                        nodes'[n] = quads[op.quad].children[k]
                 /\ \A n \in 1..Len(nodes') : nodes'[n] # op.quad]_vars

\* get_leaf_nodes() was called on a tree split twice and returned its seven
\* childless quads, with the heap still holding them
C8_Witness ==
    /\ op.name = "get_leaf_nodes"
    /\ op.max_depth = None
    /\ i = 2
    /\ Len(nodes) = 7
    /\ Len(heap) = 7

\* quad q is quad a or below it
Under(q, a) == Len(q) >= Len(a) /\ SubSeq(q, 1, Len(a)) = a

\* the children of a split quad sit top-left, top-right, bottom-left,
\* bottom-right of its box, in this order
CanonicalChildren(quad) ==
    LET c == [k \in 1..4 |-> quads[quad.children[k]].box]
    IN /\ c[1][1] = quad.box[1] /\ c[1][2] = quad.box[2]
       /\ c[2][3] = quad.box[3] /\ c[2][2] = quad.box[2]
       /\ c[3][1] = quad.box[1] /\ c[3][4] = quad.box[4]
       /\ c[4][3] = quad.box[3] /\ c[4][4] = quad.box[4]
       /\ c[1][3] = c[2][1] /\ c[3][3] = c[4][1]
       /\ c[1][4] = c[3][2] /\ c[2][4] = c[4][2]

\* C9: get_leaf_nodes returns the leaves depth first, the children of every
\* split quad in the order top-left, top-right, bottom-left, bottom-right:
\* the leaves under an earlier child all precede those under a later one
C9_DepthFirstCanonicalOrder ==
    Enumerated =>
        \A s \in DOMAIN quads :
            quads[s].children # <<>> =>
                /\ CanonicalChildren(quads[s])
                /\ \A a, b \in 1..4 :
                       a < b =>
                           \A m \in 1..Len(nodes) :
                               Under(nodes[m], quads[s].children[a]) =>
                                   \A n \in 1..Len(nodes) :
                                       Under(nodes[n], quads[s].children[b]) => m < n

\* an enumeration in which the leaves under an earlier child of the root, one
\* level further down, precede a later child of the root
C9_Witness ==
    /\ op.name = "get_leaf_nodes"
    /\ Len(nodes) >= 7
    /\ \E k \in 1..(Len(nodes) - 1) :
          /\ Len(nodes[k]) = 2
          /\ Len(nodes[k + 1]) = 1
          /\ nodes[k][1] < nodes[k + 1][1]

\* C10: when the first leaf of the enumeration has color (0, 0, 0), render
\* paints it with its own black, whatever the number of leaves
C10_FirstLeafKeepsBlack ==
    (op.name = "render" /\ painted # <<>> /\ quads[nodes[1]].color = Black)
        => painted[1].color = Black

\* C11: render paints every leaf after the first whose color is (0, 0, 0) with
\* the color of the leaf just before it in get_leaf_nodes order (that leaf's
\* own color, black or not), and every leaf whose color is not (0, 0, 0) with
\* its own color
C11_BlackLeafTakesPreviousColor ==
    op.name = "render" =>
        /\ Len(painted) = Len(nodes)
        /\ \A k \in 1..Len(nodes) :
              /\ painted[k].quad = nodes[k]
              /\ (k > 1 /\ quads[nodes[k]].color = Black)
                     => painted[k].color = quads[nodes[k - 1]].color
              /\ quads[nodes[k]].color # Black
                     => painted[k].color = quads[nodes[k]].color

\* a render in which a black leaf after the first follows a leaf of another
\* color than the leaf after it, and a leaf with one zero channel keeps its color
C11_Witness ==
    /\ op.name = "render"
    /\ \E k \in 2..(Len(nodes) - 1) :
          /\ quads[nodes[k]].color = Black
          /\ quads[nodes[k - 1]].color # Black
          /\ quads[nodes[k - 1]].color # quads[nodes[k + 1]].color
          /\ painted[k].color = quads[nodes[k - 1]].color
    /\ \E k \in 1..Len(nodes) : painted[k].color = Red

\* the quads of a sequence of quads
Elements(ns) == {ns[k] : k \in 1..Len(ns)}

\* the quads constructed by the last call: the root by Model.__init__, the
\* four children by Model.split, none by get_leaf_nodes and render
ConstructedLast ==
    IF op.name = "init" THEN {Root}
    ELSE IF op.name = "split" THEN Elements(quads[op.quad].children)
    ELSE {}

\* the histogram Quad.__init__ takes for quad q
HistOf(q) == Histogram(im, quads[q].box)

\* every channel of the histogram has exactly one bucket that is not zero
SingleBucket(hist) ==
    \A ch \in Channels : Cardinality({v \in DOMAIN hist[ch] : hist[ch][v] > 0}) = 1

\* the value of the bucket of channel histogram h that is not zero
BucketValue(h) == CHOOSE v \in DOMAIN h : h[v] > 0

\* the histogram of n pixels that all have color c
UniformHist(c, n) ==
    <<(c[1] :> n) @@ [v \in ChannelValues |-> 0],
      (c[2] :> n) @@ [v \in ChannelValues |-> 0],
      (c[3] :> n) @@ [v \in ChannelValues |-> 0]>>

\* colors with channel values at the ends and inside the range 0..255
SampleColors == {Black, White, Red, <<1, 128, 254>>, <<127, 2, 129>>}

\* a quad whose histogram hist has one non-zero bucket per channel has the
\* color of these buckets and error 0, as color_from_histogram gives for hist
\* and for as many pixels of each sample color
UniformStats(quad, hist) ==
    SingleBucket(hist) =>
        /\ quad.color = <<BucketValue(hist[1]), BucketValue(hist[2]), BucketValue(hist[3])>>
        /\ quad.error = 0
        /\ color_from_histogram(hist) = [color |-> quad.color, error |-> 0]
        /\ \A c \in SampleColors :
              color_from_histogram(UniformHist(c, hist[1][BucketValue(hist[1])])) =
                  [color |-> c, error |-> 0]

\* C12: for a region whose pixels all have one color C (one non-zero bucket
\* per channel), color_from_histogram gives color = C and error = 0: for
\* every quad over such a region, when it has been constructed, and for a
\* region of as many pixels of any other color
C12_UniformRegionStats ==
    \A q \in ConstructedLast : UniformStats(quads[q], HistOf(q))

\* a split has made a quad over several pixels that are all (255, 0, 0), next
\* to a quad over pixels of different colors
C12_Witness ==
    /\ \E q \in DOMAIN quads :
          /\ q # Root
          /\ quads[q].color = Red
          /\ SingleBucket(HistOf(q))
          /\ HistOf(q)[1][BucketValue(HistOf(q)[1])] >= 2
    /\ \E q \in DOMAIN quads : ~SingleBucket(HistOf(q)) /\ quads[q].error > 0

\* every bucket of every channel of the histogram is zero
ZeroHist(hist) == \A ch \in Channels : \A v \in DOMAIN hist[ch] : hist[ch][v] = 0

\* a quad whose histogram hist is all zero is black with error 0, as
\* weighted_average and color_from_histogram give for hist
ZeroStats(quad, hist) ==
    ZeroHist(hist) =>
        /\ \A ch \in Channels :
              weighted_average(hist[ch]) = [value |-> [num |-> 0, den |-> 1], error |-> 0]
        /\ color_from_histogram(hist) = [color |-> Black, error |-> 0]
        /\ quad.color = Black
        /\ quad.error = 0

\* C13: for a region of no pixels (all buckets zero) color_from_histogram
\* gives color = (0, 0, 0) and error = 0; the division by the zero total
\* gives the value 0, and the quad made from it is pushed like any other
\* (every quad, when it has been constructed)
C13_ZeroPixelRegionStats ==
    /\ \A x \in {0 - 1, 0, 1} : div(x, 0) = [num |-> 0, den |-> 1]
    /\ \A q \in ConstructedLast : ZeroStats(quads[q], HistOf(q)) /\ q \in Frontier

\* a split has made a quad over no pixel, and that quad has been split in turn
C13_Witness ==
    \E q \in DOMAIN quads :
        /\ ZeroHist(HistOf(q))
        /\ quads[q].children # <<>>
        /\ \E p \in DOMAIN quads : p # q /\ p # Root /\ ~ZeroHist(HistOf(p))

\* the number of pixels of the crop Image.crop takes for a box
CropArea(box) == compute_area(CropBox(box))

C15_MainStopsAtFloor ==
    [][IsSplit => \E q \in Frontier : ~AtFloor(quads[q].box)]_vars

\* two boxes have no interior point in common
Apart(a, b) == a[3] <= b[1] \/ b[3] <= a[1] \/ a[4] <= b[2] \/ b[4] <= a[2]

\* box a lies within box b
Within(a, b) == b[1] <= a[1] /\ a[3] <= b[3] /\ b[2] <= a[2] /\ a[4] <= b[4]

\* the boxes c of the four children of a quad with box p: around one point
\* (lr, tb), the midpoint of p, apart from each other and covering p; the
\* same for the pixels of their crops
FourQuadrants(p, c) ==
    /\ c[1] = <<p[1], p[2], c[1][3], c[1][4]>>
    /\ c[2] = <<c[1][3], p[2], p[3], c[1][4]>>
    /\ c[3] = <<p[1], c[1][4], c[1][3], p[4]>>
    /\ c[4] = <<c[1][3], c[1][4], p[3], p[4]>>
    /\ 2 * c[1][3] = p[1] + p[3]
    /\ 2 * c[1][4] = p[2] + p[4]
    /\ \A a, b \in 1..4 : a # b =>
           /\ Apart(c[a], c[b])
           /\ Region(im, CropBox(c[a])) \cap Region(im, CropBox(c[b])) = {}
    /\ \A a \in 1..4 : Within(c[a], p)
    /\ compute_area(c[1]) + compute_area(c[2]) + compute_area(c[3])
           + compute_area(c[4]) = compute_area(p)
    /\ UNION {Region(im, CropBox(c[a])) : a \in 1..4} = Region(im, CropBox(p))

\* quad s of the tree qs has four children, distinct quads one level down
\* that are the four quadrants of its box
SplitInFour(qs, s) ==
    /\ Len(qs[s].children) = 4
    /\ Cardinality({qs[s].children[k] : k \in 1..4}) = 4
    /\ \A k \in 1..4 :
          /\ qs[s].children[k] \in DOMAIN qs
          /\ qs[qs[s].children[k]].depth = qs[s].depth + 1
    /\ FourQuadrants(qs[s].box, [k \in 1..4 |-> qs[qs[s].children[k]].box])

\* C16: Quad.split gives a quad four children around one midpoint, pairwise
\* non-overlapping and together covering its region, each one level deeper
\* (the root has depth 0); a quad has no children before it is split and
\* exactly four afterwards
C16_SplitGeometry ==
    /\ quads[Root].depth = 0
    /\ quads[Root].children = <<>>
    /\ [][IF IsSplit
          THEN /\ quads[op'.quad].children = <<>>
               /\ SplitInFour(quads', op'.quad)
               /\ \A k \in 1..4 :
                     /\ quads'[op'.quad].children[k] \notin DOMAIN quads
                     /\ quads'[quads'[op'.quad].children[k]].children = <<>>
               /\ \A s \in DOMAIN quads : s # op'.quad => quads'[s] = quads[s]
               /\ quads'[op'.quad] =
                      [quads[op'.quad] EXCEPT !.children = quads'[op'.quad].children]
               /\ \A s \in DOMAIN quads' :
                     quads'[s].children = <<>> \/ SplitInFour(quads', s)
          ELSE quads' = quads]_vars

\* a quad of depth 1 with sides of one and a half pixels has been split, next
\* to an unsplit one
C16_Witness ==
    /\ op.name = "split"
    /\ quads[op.quad].depth = 1
    /\ 2 * (quads[op.quad].box[3] - quads[op.quad].box[1]) = 3 * Scale
    /\ 2 * (quads[op.quad].box[4] - quads[op.quad].box[2]) = 3 * Scale
    /\ \E q \in DOMAIN quads : quads[q].depth = 1 /\ quads[q].children = <<>>
    /\ \E k \in 1..4 : quads[quads[op.quad].children[k]].depth = 2

\* every quad that has been split was at least two pixels wide and high
SplitOnlyAboveFloor ==
    \A s \in DOMAIN quads :
        quads[s].children # <<>> =>
            /\ quads[s].box[3] - quads[s].box[1] >= 2 * Scale
            /\ quads[s].box[4] - quads[s].box[2] >= 2 * Scale

\* C17: as long as every quad that has been split was at least two pixels
\* wide and high, every quad of the tree has left < right and top < bottom
\* and lies within (0, 0, width, height)
C17_RegionsProperAndInBounds ==
    SplitOnlyAboveFloor =>
        \A q \in DOMAIN quads :
            /\ quads[q].box[1] < quads[q].box[3]
            /\ quads[q].box[2] < quads[q].box[4]
            /\ Within(quads[q].box, <<0, 0, width * Scale, height * Scale>>)

\* two splits of quads at least two pixels wide and high, the second of a
\* quad that does not start at the origin
C17_Witness ==
    /\ SplitOnlyAboveFloor
    /\ i >= 2
    /\ \E s \in DOMAIN quads :
          /\ s # Root
          /\ quads[s].children # <<>>
          /\ quads[s].box[1] > 0
          /\ quads[s].box[2] > 0

\* the quads of the tree that have no children
Childless == {q \in DOMAIN quads : quads[q].children = <<>>}

\* the quads hs in the heap are the childless quads of the tree qs, each
\* once, and so are the quads leaves listed by get_leaf_nodes()
HeapIsChildless(qs, hs, leaves) ==
    /\ Elements(hs) = {q \in DOMAIN qs : qs[q].children = <<>>}
    /\ Cardinality(Elements(hs)) = Len(hs)
    /\ Elements(leaves) = Elements(hs)
    /\ Len(leaves) = Len(hs)

\* C18: after any sequence of Model.split calls the heap holds exactly the
\* childless quads of the tree, each once; so root.get_leaf_nodes() returns
\* the quads of the frontier, each once, and Model.split never pops a quad
\* that has been split before
C18_HeapIsChildlessQuads ==
    /\ HeapIsChildless(quads, ModelQuads(heap), get_leaf_nodes(quads, Root, None))
    /\ [][IF IsSplit
          THEN /\ HeapIsChildless(quads', ModelQuads(heap'),
                                  get_leaf_nodes(quads', Root, None))
               /\ quads[op'.quad].children = <<>>
               /\ op'.quad \in Frontier
               /\ op'.quad \notin Elements(ModelQuads(heap'))
          ELSE quads' = quads /\ heap' = heap]_vars

\* three splits, the last of a quad below the root, and the heap holds the
\* ten childless quads, of depth 1 and 2, in another order than
\* get_leaf_nodes() lists them
C18_Witness ==
    /\ op.name = "split"
    /\ i = 3
    /\ op.quad # Root
    /\ \E q \in Frontier : quads[q].depth = 1
    /\ \E q \in Frontier : quads[q].depth = 2
    /\ Frontier = Childless
    /\ Cardinality(Frontier) = 10
    /\ ModelQuads(heap) # get_leaf_nodes(quads, Root, None)

\* the quads of the tree qs that are leaf-flagged and have been split
FlaggedSplit(qs) == {s \in DOMAIN qs : qs[s].leaf = 1 /\ qs[s].children # <<>>}

\* C19: every child of a quad with leaf = 1 has leaf = 1; once Model.split
\* has popped a leaf-flagged quad, every quad of the frontier is leaf-flagged
\* and every later Model.split pops a leaf-flagged quad
C19_LeafFlagInherited ==
    [][/\ \A s \in FlaggedSplit(quads') :
             \A k \in 1..Len(quads'[s].children) :
                 quads'[quads'[s].children[k]].leaf = 1
       /\ FlaggedSplit(quads') # {} =>
             \A n \in 1..Len(heap') : /\ heap'[n][1] = 1
                                       /\ quads'[heap'[n][3]].leaf = 1
       /\ (IsSplit /\ FlaggedSplit(quads) # {}) => quads[op'.quad].leaf = 1]_vars

\* the root, not leaf-flagged, was split first, then a leaf-flagged child of
\* it, then another leaf-flagged quad
C19_Witness ==
    /\ op.name = "split"
    /\ i = 3
    /\ quads[Root].leaf = 0
    /\ quads[op.quad].leaf = 1
    /\ Cardinality(FlaggedSplit(quads)) = 2

====
